---- MODULE Spec2Model ----
(***************************************************************************)
(* A model of src/gpu/cuda_wrapper.c (simulation build: every `#if 0`      *)
(* branch is compiled out).  The state is the static cuda_context, the C   *)
(* heap behind malloc/free, and the CudaBuffer variables a caller holds.   *)
(* Every public entry point is one action; `last` records the call that    *)
(* was just made: its arguments, its return code, what it wrote through    *)
(* the caller's out-pointers and the undefined behaviour it ran into.      *)
(***************************************************************************)
EXTENDS Integers, Sequences, FiniteSets

\* ------------------------------------------------------------------ bounds
MaxAddr == 4          \* heap addresses 1..MaxAddr can be handed out by malloc
MaxSize == 8          \* largest byte size the caller asks cuda_allocate for

\* --------------------------------------------------------- program constants
CUDA_SUCCESS == 0
CUDA_ERROR_INIT_FAILED == 1
CUDA_ERROR_NO_DEVICE == 2
CUDA_ERROR_MEMORY_ALLOCATION == 3
CUDA_ERROR_LAUNCH_FAILED == 4
CUDA_ERROR_INVALID_VALUE == 5
CUDA_ERROR_NOT_SUPPORTED == 6
CUDA_ERROR_UNKNOWN == 999
\* a call that never returned (the process was killed inside it)
NO_RETURN == CUDA_ERROR_UNKNOWN + 1

CUDA_CMP_EQ == 0
CUDA_CMP_NE == 1
CUDA_CMP_LT == 2
CUDA_CMP_LE == 3
CUDA_CMP_GT == 4
CUDA_CMP_GE == 5
CUDA_CMP_BETWEEN == 6

CUDA_JOIN_INNER == 0
CUDA_JOIN_LEFT == 1
CUDA_JOIN_RIGHT == 2
CUDA_JOIN_FULL == 3

CUDA_AGG_SUM == 0
CUDA_AGG_COUNT == 1
CUDA_AGG_MIN == 2
CUDA_AGG_MAX == 3
CUDA_AGG_AVG == 4

CUDA_TYPE_INT32 == 0
CUDA_TYPE_INT64 == 1
CUDA_TYPE_FLOAT == 2
CUDA_TYPE_DOUBLE == 3
CUDA_TYPE_STRING == 4

MaxDevices == 8       \* CudaDeviceInfo devices[8]
SizeofInt == 4        \* malloc(sizeof(int))
NULL == 0
\* an indeterminate byte or int: malloc'ed memory, an unassigned local
Uninit == 0 - 1

Addrs == 1..MaxAddr
\* the caller's two CudaBuffer variables: what it passes as an operator's
\* input and as its output
Handles == {1, 2}
\* a buffer argument: one of the caller's variables, or 0 for a zeroed struct
BufArgs == {0} \cup Handles

\* ------------------------------------------------------------- environment
\* getenv("GEEQODB_CUDA_DEVICE_COUNT"): absent, or a C string
EnvValues ==
    { [present |-> FALSE, text |-> <<>>],
      [present |-> TRUE,  text |-> <<"3">>],
      [present |-> TRUE,  text |-> <<"0">>],
      [present |-> TRUE,  text |-> <<"-", "1">>],
      [present |-> TRUE,  text |-> <<" ", "9", "x">>] }

IsDigit(c) == c \in {"0", "1", "2", "3", "4", "5", "6", "7", "8", "9"}

DigitVal(c) ==
    CASE c = "0" -> 0 [] c = "1" -> 1 [] c = "2" -> 2 [] c = "3" -> 3
      [] c = "4" -> 4 [] c = "5" -> 5 [] c = "6" -> 6 [] c = "7" -> 7
      [] c = "8" -> 8 [] c = "9" -> 9

RECURSIVE SkipSpace(_, _)
SkipSpace(s, i) ==
    IF i <= Len(s) /\ s[i] = " " THEN SkipSpace(s, i + 1) ELSE i

RECURSIVE Digits(_, _, _)
Digits(s, i, acc) ==
    IF i <= Len(s) /\ IsDigit(s[i])
    THEN Digits(s, i + 1, 10 * acc + DigitVal(s[i]))
    ELSE acc

\* atoi: leading blanks, an optional sign, then digits up to the first
\* character that is none; 0 when there are no digits
atoi(s) ==
    LET i == SkipSpace(s, 1)
        neg == i <= Len(s) /\ s[i] = "-"
        j == IF i <= Len(s) /\ s[i] \in {"-", "+"} THEN i + 1 ELSE i
        v == Digits(s, j, 0)
    IN  IF neg THEN 0 - v ELSE v

\* the count cuda_init resolves: the override if set, else 1
ResolveDeviceCount(env) ==
    IF env.present THEN atoi(env.text) ELSE 1

\* ------------------------------------------------------------ device table
ZeroDevice ==
    [device_id |-> 0, compute_capability_major |-> 0,
     multi_processor_count |-> 0, max_threads_per_block |-> 0]

UninitDevice ==
    [device_id |-> Uninit, compute_capability_major |-> Uninit,
     multi_processor_count |-> Uninit, max_threads_per_block |-> Uninit]

SimulatedDevice(i) ==
    [device_id |-> i, compute_capability_major |-> 8,
     multi_processor_count |-> 64, max_threads_per_block |-> 1024]

\* the loop `for (i = 0; i < device_count; i++) devices[i] = ...`: the
\* entries it writes inside the table
PopulateDevices(table, count) ==
    [i \in 0..(MaxDevices - 1) |->
        IF i < count THEN SimulatedDevice(i) ELSE table[i]]

\* ------------------------------------------------------------------- state
VARIABLES
    initialized,    \* cuda_context.initialized
    device_count,   \* cuda_context.device_count
    devices,        \* cuda_context.devices[8]
    heap,           \* address -> block behind malloc/free
    handles,        \* the caller's CudaBuffer variables
    owned,          \* handles whose last successful allocate is unreleased
    last            \* the call just made

vars == <<initialized, device_count, devices, heap, handles, owned, last>>

NullBuffer == [device_ptr |-> NULL, size |-> 0, count_ptr |-> NULL]

Buf(b) == IF b = 0 THEN NullBuffer ELSE handles[b]

FreeBlock == [live |-> FALSE, bytes |-> <<>>]

NoCall ==
    [op |-> "none", ret |-> CUDA_SUCCESS, faults |-> {},
     dev |-> 0, n |-> 0, h |-> 0, hostnull |-> FALSE,
     count_out |-> Uninit, info |-> UninitDevice,
     src |-> <<>>, dst |-> <<>>]

\* undefined behaviour on the heap leaves the allocator in no state this
\* model describes; an access past the static device table does not reach it
HeapFaults == {"double_free", "use_after_free", "out_of_bounds", "null_deref"}

\* the process died in the last call, or corrupted its heap: what it does
\* after that is not modelled
Stopped == last.ret = NO_RETURN \/ last.faults \cap HeapFaults # {}

\* what a call that runs into undefined behaviour can do: return, or die
Returns(faults, code) ==
    IF faults = {} THEN {code} ELSE {code, NO_RETURN}

Init ==
    /\ initialized = FALSE
    /\ device_count = 0
    /\ devices = [i \in 0..(MaxDevices - 1) |-> ZeroDevice]
    /\ heap = [a \in Addrs |-> FreeBlock]
    /\ handles = [h \in Handles |-> NullBuffer]
    /\ owned = {}
    /\ last = NoCall

\* ---------------------------------------------------------------- registry
\* a cuda_init without its early return, which enumerates again on every call
\* (C4 rules it out)
EnumerateAgain == FALSE

\* `if (cuda_context.initialized)`: the early return of a repeated cuda_init
AlreadyInitialized == initialized

\* a cuda_init that takes a count of zero for a device (C5 rules it out)
NoDeviceBelowZero(count) == count < 0

\* `if (cuda_context.device_count <= 0)`
NoDevice(count) == count <= 0

\* a range check that lets device_id = device_count through (C6 rules it out)
DeviceIdPastEnd(device_id) == device_id < 0 \/ device_id > device_count

\* `if (device_id < 0 || device_id >= cuda_context.device_count)`
DeviceIdInvalid(device_id) == device_id < 0 \/ device_id >= device_count

\* cuda_init(&count) with the environment holding env
cuda_init(env) ==
    /\ ~Stopped
    /\ IF AlreadyInitialized
       THEN /\ last' = [NoCall EXCEPT !.op = "cuda_init",
                                      !.count_out = device_count]
            /\ UNCHANGED <<initialized, device_count, devices>>
       ELSE LET count == ResolveDeviceCount(env)
            IN  IF NoDevice(count)
                THEN /\ device_count' = count
                     /\ last' = [NoCall EXCEPT !.op = "cuda_init",
                                               !.ret = CUDA_ERROR_NO_DEVICE]
                     /\ UNCHANGED <<initialized, devices>>
                ELSE LET f == IF count > MaxDevices
                              THEN {"table_overflow"} ELSE {}
                     IN  \E r \in Returns(f, CUDA_SUCCESS) :
                            /\ device_count' = count
                            /\ devices' = PopulateDevices(devices, count)
                            /\ initialized' = (r = CUDA_SUCCESS)
                            /\ last' = [NoCall EXCEPT
                                 !.op = "cuda_init", !.ret = r, !.faults = f,
                                 !.count_out = IF r = CUDA_SUCCESS
                                               THEN count ELSE Uninit]
    /\ UNCHANGED <<heap, handles, owned>>

CudaInit == \E env \in EnvValues : cuda_init(env)

\* the same call in a process whose environment sets no override
NoOverride == [present |-> FALSE, text |-> <<>>]
CudaInitDefault == cuda_init(NoOverride)

\* device ids the caller tries: below, inside and past every table
DeviceIds == {0 - 1, 0, 1, 2, 3, MaxDevices, MaxDevices + 1}

\* cuda_get_device_info(device_id, &info)
cuda_get_device_info(device_id) ==
    /\ ~Stopped
    /\ IF ~initialized
       THEN last' = [NoCall EXCEPT !.op = "cuda_get_device_info",
                                   !.dev = device_id,
                                   !.ret = CUDA_ERROR_INIT_FAILED]
       ELSE IF DeviceIdInvalid(device_id)
       THEN last' = [NoCall EXCEPT !.op = "cuda_get_device_info",
                                   !.dev = device_id,
                                   !.ret = CUDA_ERROR_INVALID_VALUE]
       ELSE LET f == IF device_id >= MaxDevices
                     THEN {"table_overread"} ELSE {}
            IN  \E r \in Returns(f, CUDA_SUCCESS) :
                   last' = [NoCall EXCEPT
                       !.op = "cuda_get_device_info", !.dev = device_id,
                       !.ret = r, !.faults = f,
                       !.info = IF f = {} THEN devices[device_id]
                                ELSE UninitDevice]
    /\ UNCHANGED <<initialized, device_count, devices, heap, handles,
                   owned>>

CudaGetDeviceInfo == \E id \in DeviceIds : cuda_get_device_info(id)

\* -------------------------------------------------------------------- heap
LiveAddrs(hp) == {a \in Addrs : hp[a].live}

\* malloc(size): NULL (out of memory, or possibly for size 0), or the lowest
\* address that is not in use (a first-fit allocator)
MallocResults(hp) ==
    LET unused == Addrs \ LiveAddrs(hp)
    IN  {NULL} \cup {a \in unused : \A b \in unused : a <= b}

\* the block malloc hands out: size bytes, contents indeterminate
Malloced(hp, a, size) ==
    [hp EXCEPT ![a] = [live |-> TRUE, bytes |-> [i \in 1..size |-> Uninit]]]

\* free(p) as cuda_free and cuda_allocate call it (p is not NULL)
free(hp, p) ==
    IF hp[p].live THEN [hp EXCEPT ![p] = FreeBlock] ELSE hp

\* the undefined behaviour of free(p) on behalf of buffer b: p was freed
\* before (and may since have been handed out to another buffer)
FreeFaults(hp, b, p) ==
    IF p # NULL /\ (~hp[p].live \/ b \notin owned)
    THEN {"double_free"} ELSE {}

\* the bytes of a 32-bit int in memory, little-endian two's complement
\* (\div rounds down, so a negative v sign-extends)
EncodeInt(v) ==
    [i \in 1..SizeofInt |-> (v \div (256 ^ (i - 1))) % 256]

\* a copy that stops one byte short (C8 rules it out)
memcpy_short(dst, src, n) ==
    [i \in 1..Len(dst) |-> IF i < n /\ i <= Len(src) THEN src[i] ELSE dst[i]]

\* memcpy(dst, src, n) on the bytes that exist on both sides
memcpy(dst, src, n) ==
    [i \in 1..Len(dst) |-> IF i <= n /\ i <= Len(src) THEN src[i] ELSE dst[i]]

\* a store of bs through pointer p (not NULL): the bytes that land in the
\* block; bytes past its end, or into a freed block, are lost
Store(hp, p, bs) ==
    IF ~hp[p].live THEN hp
    ELSE [hp EXCEPT ![p].bytes = memcpy(@, bs, Len(bs))]

\* a load of n bytes through pointer p (not NULL)
Load(hp, p, n) ==
    [i \in 1..n |->
        IF hp[p].live /\ i <= Len(hp[p].bytes) THEN hp[p].bytes[i]
        ELSE Uninit]

\* the undefined behaviour of touching n bytes behind p on behalf of buffer b
AccessFaults(hp, b, p, n) ==
    IF p = NULL THEN {"null_deref"}
    ELSE (IF ~hp[p].live \/ b \notin owned
          THEN {"use_after_free"} ELSE {})
         \cup (IF hp[p].live /\ n > Len(hp[p].bytes)
               THEN {"out_of_bounds"} ELSE {})

\* ----------------------------------------------------------------- buffers
\* the sizes the caller asks for, and the device ids it asks them on
AllocSizes == {MaxSize}
AllocDeviceIds == {0 - 1, 0, 3}

\* an unwinding that forgets the data region (C3 rules it out)
UnwindNothing(hp, p1) == hp

\* the unwinding when the count cell cannot be had: `free(buffer->device_ptr)`
UnwindData(hp, p1) == free(hp, p1)

\* cuda_allocate(device_id, size, &handles[h]); p1 and p2 are what the two
\* malloc calls return
cuda_allocate(device_id, size, h, p1, p2) ==
    /\ ~Stopped
    /\ IF ~initialized
       THEN /\ last' = [NoCall EXCEPT !.op = "cuda_allocate", !.h = h,
                            !.dev = device_id,
                            !.ret = CUDA_ERROR_INIT_FAILED]
            /\ UNCHANGED <<heap, handles, owned>>
       ELSE IF DeviceIdInvalid(device_id)
       THEN /\ last' = [NoCall EXCEPT !.op = "cuda_allocate", !.h = h,
                            !.dev = device_id,
                            !.ret = CUDA_ERROR_INVALID_VALUE]
            /\ UNCHANGED <<heap, handles, owned>>
       ELSE IF p1 = NULL
       THEN /\ handles' = [handles EXCEPT ![h].device_ptr = NULL]
            /\ last' = [NoCall EXCEPT !.op = "cuda_allocate", !.h = h,
                            !.dev = device_id,
                            !.ret = CUDA_ERROR_MEMORY_ALLOCATION]
            /\ owned' = owned \ {h}
            /\ UNCHANGED heap
       ELSE IF p2 = NULL
       THEN /\ handles' = [handles EXCEPT ![h].device_ptr = p1,
                                          ![h].count_ptr = NULL]
            /\ heap' = UnwindData(Malloced(heap, p1, size), p1)
            /\ last' = [NoCall EXCEPT !.op = "cuda_allocate", !.h = h,
                            !.dev = device_id,
                            !.ret = CUDA_ERROR_MEMORY_ALLOCATION]
            /\ owned' = owned \ {h}
       ELSE /\ handles' = [handles EXCEPT ![h] =
                   [device_ptr |-> p1, size |-> size, count_ptr |-> p2]]
            /\ heap' = Store(Malloced(Malloced(heap, p1, size), p2, SizeofInt),
                             p2, EncodeInt(0))
            /\ last' = [NoCall EXCEPT !.op = "cuda_allocate", !.h = h,
                            !.dev = device_id]
            /\ owned' = owned \cup {h}
    /\ UNCHANGED <<initialized, device_count, devices>>

\* the caller allocates into a variable that holds no unreleased buffer
CudaAllocate ==
    \E device_id \in AllocDeviceIds, size \in AllocSizes,
       h \in Handles \ owned :
        \E p1 \in MallocResults(heap) :
            \E p2 \in (IF p1 = NULL THEN {NULL}
                       ELSE MallocResults(Malloced(heap, p1, size))) :
                cuda_allocate(device_id, size, h, p1, p2)

\* cuda_free(Buf(b)): the struct is passed by value
cuda_free(b) ==
    /\ ~Stopped
    /\ LET buffer == Buf(b)
           f1 == FreeFaults(heap, b, buffer.device_ptr)
           heap1 == IF buffer.device_ptr # NULL
                    THEN free(heap, buffer.device_ptr) ELSE heap
           f2 == FreeFaults(heap1, b, buffer.count_ptr)
           heap2 == IF buffer.count_ptr # NULL
                    THEN free(heap1, buffer.count_ptr) ELSE heap1
       IN  \E r \in Returns(f1 \cup f2, CUDA_SUCCESS) :
              /\ heap' = heap2
              /\ last' = [NoCall EXCEPT !.op = "cuda_free", !.h = b,
                              !.ret = r, !.faults = f1 \cup f2]
              /\ owned' = owned \ {b}
    /\ UNCHANGED <<initialized, device_count, devices, handles>>

CudaFree == \E b \in BufArgs : cuda_free(b)

\* ---------------------------------------------------------------- transfer
\* the byte counts the caller asks a copy for
CopySizes == {0, 1, MaxSize, MaxSize + 1}

\* the host arrays the caller copies from, and the one it copies into
HostSources ==
    { [i \in 1..(MaxSize + 1) |-> i], [i \in 1..(MaxSize + 1) |-> 100 + i] }
HostFill == [i \in 1..(MaxSize + 1) |-> 170]

\* an argument check without the size comparison (C7 rules it out)
CopyArgsUnsized(hostnull, buffer, size) ==
    hostnull \/ buffer.device_ptr = NULL

\* `!host_ptr || !buffer.device_ptr || size > buffer.size`
CopyArgsInvalid(hostnull, buffer, size) ==
    hostnull \/ buffer.device_ptr = NULL \/ size > buffer.size

\* cuda_copy_to_device(host_ptr, Buf(b), size); src is what host_ptr points at
cuda_copy_to_device(hostnull, src, b, size) ==
    /\ ~Stopped
    /\ LET buffer == Buf(b)
           call == [NoCall EXCEPT !.op = "cuda_copy_to_device", !.h = b,
                        !.n = size, !.hostnull = hostnull, !.src = src]
       IN  IF ~initialized
           THEN /\ last' = [call EXCEPT !.ret = CUDA_ERROR_INIT_FAILED]
                /\ UNCHANGED heap
           ELSE IF CopyArgsInvalid(hostnull, buffer, size)
           THEN /\ last' = [call EXCEPT !.ret = CUDA_ERROR_INVALID_VALUE]
                /\ UNCHANGED heap
           ELSE LET f == AccessFaults(heap, b, buffer.device_ptr, size)
                IN  \E r \in Returns(f, CUDA_SUCCESS) :
                       /\ heap' = Store(heap, buffer.device_ptr,
                                        SubSeq(src, 1, size))
                       /\ last' = [call EXCEPT !.ret = r, !.faults = f]
    /\ UNCHANGED <<initialized, device_count, devices, handles, owned>>

CudaCopyToDevice ==
    \E hostnull \in BOOLEAN, b \in BufArgs, size \in CopySizes :
        \E src \in (IF hostnull THEN {<<>>} ELSE HostSources) :
            cuda_copy_to_device(hostnull, src, b, size)

\* cuda_copy_to_host(Buf(b), host_ptr, size); host_ptr points at HostFill
cuda_copy_to_host(b, hostnull, size) ==
    /\ ~Stopped
    /\ LET buffer == Buf(b)
           host == IF hostnull THEN <<>> ELSE HostFill
           call == [NoCall EXCEPT !.op = "cuda_copy_to_host", !.h = b,
                        !.n = size, !.hostnull = hostnull, !.dst = host]
       IN  IF ~initialized
           THEN last' = [call EXCEPT !.ret = CUDA_ERROR_INIT_FAILED]
           ELSE IF CopyArgsInvalid(hostnull, buffer, size)
           THEN last' = [call EXCEPT !.ret = CUDA_ERROR_INVALID_VALUE]
           ELSE LET f == AccessFaults(heap, b, buffer.device_ptr, size)
                IN  \E r \in Returns(f, CUDA_SUCCESS) :
                       last' = [call EXCEPT !.ret = r, !.faults = f,
                           !.dst = memcpy(host,
                                     Load(heap, buffer.device_ptr, size), size)]
    /\ UNCHANGED <<initialized, device_count, devices, heap, handles,
                   owned>>

CudaCopyToHost ==
    \E b \in BufArgs, hostnull \in BOOLEAN, size \in CopySizes :
        cuda_copy_to_host(b, hostnull, size)

\* --------------------------------------------------------------- operators
ComparisonOps == CUDA_CMP_EQ..CUDA_CMP_BETWEEN
JoinTypes == CUDA_JOIN_INNER..CUDA_JOIN_FULL
AggregateOps == CUDA_AGG_SUM..CUDA_AGG_AVG
DataTypes == CUDA_TYPE_INT32..CUDA_TYPE_STRING

\* `*((int *)p) = v` on behalf of buffer b
IntStoreFaults(hp, b, p) == AccessFaults(hp, b, p, SizeofInt)
IntStore(hp, p, v) == IF p = NULL THEN hp ELSE Store(hp, p, EncodeInt(v))

\* the simulated result count of cuda_execute_filter
FilterResultCount(op, data_type, vnull) ==
    IF data_type = CUDA_TYPE_INT32 /\ op = CUDA_CMP_GT /\ ~vnull THEN 523
    ELSE CASE op = CUDA_CMP_EQ -> 10
           [] op = CUDA_CMP_NE -> 90
           [] op = CUDA_CMP_LT -> 30
           [] op = CUDA_CMP_LE -> 40
           [] op = CUDA_CMP_GT -> 60
           [] op = CUDA_CMP_GE -> 70
           [] op = CUDA_CMP_BETWEEN -> 20
           [] OTHER -> 0

\* `!input.device_ptr || !output.device_ptr || !value`
FilterArgsInvalid(input, output, vnull, v2null) ==
    input.device_ptr = NULL \/ output.device_ptr = NULL \/ vnull

\* cuda_execute_filter(Buf(bi), Buf(bo), op, data_type, value, value2)
cuda_execute_filter(bi, bo, op, data_type, vnull, v2null) ==
    /\ ~Stopped
    /\ LET input == Buf(bi)
           output == Buf(bo)
           call == [NoCall EXCEPT !.op = "cuda_execute_filter"]
       IN  IF ~initialized
           THEN /\ last' = [call EXCEPT !.ret = CUDA_ERROR_INIT_FAILED]
                /\ UNCHANGED heap
           ELSE IF FilterArgsInvalid(input, output, vnull, v2null)
           THEN /\ last' = [call EXCEPT !.ret = CUDA_ERROR_INVALID_VALUE]
                /\ UNCHANGED heap
           ELSE LET f == IntStoreFaults(heap, bo, output.count_ptr)
                IN  \E r \in Returns(f, CUDA_SUCCESS) :
                       /\ heap' = IntStore(heap, output.count_ptr,
                                     FilterResultCount(op, data_type, vnull))
                       /\ last' = [call EXCEPT !.ret = r, !.faults = f]
    /\ UNCHANGED <<initialized, device_count, devices, handles, owned>>

CudaExecuteFilter ==
    \E bi \in BufArgs, bo \in BufArgs, op \in ComparisonOps,
       data_type \in DataTypes, vnull \in BOOLEAN, v2null \in BOOLEAN :
        cuda_execute_filter(bi, bo, op, data_type, vnull, v2null)

\* cuda_execute_join(Buf(bl), Buf(br), Buf(bo), join_type, ...): the column
\* indices and the data type are not read
cuda_execute_join(bl, br, bo, join_type) ==
    /\ ~Stopped
    /\ LET left == Buf(bl)
           right == Buf(br)
           output == Buf(bo)
           call == [NoCall EXCEPT !.op = "cuda_execute_join"]
       IN  IF ~initialized
           THEN /\ last' = [call EXCEPT !.ret = CUDA_ERROR_INIT_FAILED]
                /\ UNCHANGED heap
           ELSE IF left.device_ptr = NULL \/ right.device_ptr = NULL
                   \/ output.device_ptr = NULL
           THEN /\ last' = [call EXCEPT !.ret = CUDA_ERROR_INVALID_VALUE]
                /\ UNCHANGED heap
           ELSE LET f == IF output.count_ptr = NULL THEN {}
                         ELSE IntStoreFaults(heap, bo, output.count_ptr)
                IN  \E r \in Returns(f, CUDA_SUCCESS) :
                       /\ heap' = IntStore(heap, output.count_ptr, 250)
                       /\ last' = [call EXCEPT !.ret = r, !.faults = f]
    /\ UNCHANGED <<initialized, device_count, devices, handles, owned>>

CudaExecuteJoin ==
    \E bl \in BufArgs, br \in BufArgs, bo \in BufArgs,
       join_type \in JoinTypes :
        cuda_execute_join(bl, br, bo, join_type)

\* the bytes of the scalar cuda_execute_aggregate stores at output.device_ptr
\* (an int, a float or a double, little-endian IEEE 754); none when the
\* switch has no branch for the pair
AggregateBytes(op, data_type) ==
    CASE op = CUDA_AGG_SUM /\ data_type = CUDA_TYPE_INT32 ->
           EncodeInt(523776)
      [] op = CUDA_AGG_SUM /\ data_type = CUDA_TYPE_FLOAT ->
           <<0, 192, 255, 72>>                       \* 523776.0f
      [] op = CUDA_AGG_SUM /\ data_type = CUDA_TYPE_DOUBLE ->
           <<0, 0, 0, 0, 0, 248, 31, 65>>            \* 523776.0
      [] op = CUDA_AGG_COUNT -> EncodeInt(1024)
      [] op = CUDA_AGG_MIN /\ data_type = CUDA_TYPE_INT32 -> EncodeInt(0)
      [] op = CUDA_AGG_MIN /\ data_type = CUDA_TYPE_FLOAT ->
           <<0, 0, 0, 0>>                            \* 0.0f
      [] op = CUDA_AGG_MIN /\ data_type = CUDA_TYPE_DOUBLE ->
           <<0, 0, 0, 0, 0, 0, 0, 0>>                \* 0.0
      [] op = CUDA_AGG_MAX /\ data_type = CUDA_TYPE_INT32 -> EncodeInt(1023)
      [] op = CUDA_AGG_MAX /\ data_type = CUDA_TYPE_FLOAT ->
           <<0, 192, 127, 68>>                       \* 1023.0f
      [] op = CUDA_AGG_MAX /\ data_type = CUDA_TYPE_DOUBLE ->
           <<0, 0, 0, 0, 0, 248, 143, 64>>           \* 1023.0
      [] op = CUDA_AGG_AVG /\ data_type = CUDA_TYPE_FLOAT ->
           <<0, 192, 255, 67>>                       \* 511.5f
      [] op = CUDA_AGG_AVG /\ data_type = CUDA_TYPE_DOUBLE ->
           <<0, 0, 0, 0, 0, 248, 127, 64>>           \* 511.5
      [] OTHER -> <<>>

\* cuda_execute_aggregate(Buf(bi), Buf(bo), op, data_type, column_index): the
\* column index is not read
cuda_execute_aggregate(bi, bo, op, data_type) ==
    /\ ~Stopped
    /\ LET input == Buf(bi)
           output == Buf(bo)
           call == [NoCall EXCEPT !.op = "cuda_execute_aggregate"]
           bytes == AggregateBytes(op, data_type)
       IN  IF ~initialized
           THEN /\ last' = [call EXCEPT !.ret = CUDA_ERROR_INIT_FAILED]
                /\ UNCHANGED heap
           ELSE IF input.device_ptr = NULL \/ output.device_ptr = NULL
           THEN /\ last' = [call EXCEPT !.ret = CUDA_ERROR_INVALID_VALUE]
                /\ UNCHANGED heap
           ELSE LET f == IF bytes = <<>> THEN {}
                         ELSE AccessFaults(heap, bo, output.device_ptr,
                                           Len(bytes))
                IN  \E r \in Returns(f, CUDA_SUCCESS) :
                       /\ heap' = Store(heap, output.device_ptr, bytes)
                       /\ last' = [call EXCEPT !.ret = r, !.faults = f]
    /\ UNCHANGED <<initialized, device_count, devices, handles, owned>>

CudaExecuteAggregate ==
    \E bi \in BufArgs, bo \in BufArgs, op \in AggregateOps,
       data_type \in DataTypes :
        cuda_execute_aggregate(bi, bo, op, data_type)

\* a sort that reports no rows (C12 rules it out)
SortedCountZero(hp, p) == EncodeInt(0)

\* `*((int *)input.count_ptr)`: the row count a sort hands on
SortedCount(hp, p) == Load(hp, p, SizeofInt)

\* cuda_execute_sort(Buf(bi), Buf(bo), data_type, column_index, ascending):
\* none of the last three is read
cuda_execute_sort(bi, bo) ==
    /\ ~Stopped
    /\ LET input == Buf(bi)
           output == Buf(bo)
           call == [NoCall EXCEPT !.op = "cuda_execute_sort"]
       IN  IF ~initialized
           THEN /\ last' = [call EXCEPT !.ret = CUDA_ERROR_INIT_FAILED]
                /\ UNCHANGED heap
           ELSE IF input.device_ptr = NULL \/ output.device_ptr = NULL
           THEN /\ last' = [call EXCEPT !.ret = CUDA_ERROR_INVALID_VALUE]
                /\ UNCHANGED heap
           ELSE LET f == IntStoreFaults(heap, bi, input.count_ptr)
                         \cup IntStoreFaults(heap, bo, output.count_ptr)
                IN  \E r \in Returns(f, CUDA_SUCCESS) :
                       /\ heap' =
                            IF input.count_ptr = NULL \/ output.count_ptr = NULL
                            THEN heap
                            ELSE Store(heap, output.count_ptr,
                                       SortedCount(heap, input.count_ptr))
                       /\ last' = [call EXCEPT !.ret = r, !.faults = f]
    /\ UNCHANGED <<initialized, device_count, devices, handles, owned>>

CudaExecuteSort ==
    \E bi \in BufArgs, bo \in BufArgs : cuda_execute_sort(bi, bo)

\* cuda_execute_group_by(Buf(bi), Buf(bo), ...): the types, the columns and
\* the aggregate are not read
cuda_execute_group_by(bi, bo) ==
    /\ ~Stopped
    /\ LET input == Buf(bi)
           output == Buf(bo)
           call == [NoCall EXCEPT !.op = "cuda_execute_group_by"]
       IN  IF ~initialized
           THEN /\ last' = [call EXCEPT !.ret = CUDA_ERROR_INIT_FAILED]
                /\ UNCHANGED heap
           ELSE IF input.device_ptr = NULL \/ output.device_ptr = NULL
           THEN /\ last' = [call EXCEPT !.ret = CUDA_ERROR_INVALID_VALUE]
                /\ UNCHANGED heap
           ELSE LET f == IntStoreFaults(heap, bo, output.count_ptr)
                IN  \E r \in Returns(f, CUDA_SUCCESS) :
                       /\ heap' = IntStore(heap, output.count_ptr, 10)
                       /\ last' = [call EXCEPT !.ret = r, !.faults = f]
    /\ UNCHANGED <<initialized, device_count, devices, handles, owned>>

CudaExecuteGroupBy ==
    \E bi \in BufArgs, bo \in BufArgs : cuda_execute_group_by(bi, bo)

\* ---------------------------------------------------------- specifications
\* the buffer lifecycle and the two copies
NextTransfer ==
    \/ CudaInitDefault
    \/ CudaAllocate
    \/ CudaFree
    \/ CudaCopyToDevice
    \/ CudaCopyToHost

SpecTransfer == Init /\ [][NextTransfer]_vars

\* the registry under every override, with the calls that read device_count
NextRegistry ==
    \/ CudaInit
    \/ CudaGetDeviceInfo
    \/ CudaAllocate
    \/ CudaFree

SpecRegistry == Init /\ [][NextRegistry]_vars

\* the buffer lifecycle and the operators that write a result count
NextOperators ==
    \/ CudaInitDefault
    \/ CudaAllocate
    \/ CudaFree
    \/ CudaExecuteFilter
    \/ CudaExecuteJoin
    \/ CudaExecuteSort
    \/ CudaExecuteGroupBy

SpecOperators == Init /\ [][NextOperators]_vars

\* the buffer lifecycle and the operator that writes a scalar
NextAggregate ==
    \/ CudaInitDefault
    \/ CudaAllocate
    \/ CudaFree
    \/ CudaExecuteAggregate

SpecAggregate == Init /\ [][NextAggregate]_vars

\* every entry point, called while the registry is not initialized
NextStartup ==
    \/ ~initialized /\ CudaInit
    \/ ~initialized /\ CudaGetDeviceInfo
    \/ ~initialized /\ CudaAllocate
    \/ ~initialized /\ CudaFree
    \/ ~initialized /\ CudaCopyToDevice
    \/ ~initialized /\ CudaCopyToHost
    \/ ~initialized /\ CudaExecuteFilter
    \/ ~initialized /\ CudaExecuteJoin
    \/ ~initialized /\ CudaExecuteAggregate
    \/ ~initialized /\ CudaExecuteSort
    \/ ~initialized /\ CudaExecuteGroupBy

SpecStartup == Init /\ [][NextStartup]_vars

\* ------------------------------------------------------------------ claims
\* the addresses the buffers hold that were allocated and not yet released
OwnedAddrs ==
    UNION { {handles[h].device_ptr, handles[h].count_ptr} : h \in owned }

\* a call that returned one of the error codes
Failed(call) == call.ret \notin {CUDA_SUCCESS, NO_RETURN}

\* C1: release is idempotent. When cuda_free has released a handle that a
\* successful cuda_allocate filled, a second cuda_free on the same handle is
\* a no-op: it changes no block and frees neither region a second time.
C1_SecondReleaseIsNoOp ==
    [][\A b \in Handles :
        (/\ last.op = "cuda_free" /\ last.h = b /\ last.faults = {}
         /\ handles[b].device_ptr # NULL
         /\ last'.op = "cuda_free" /\ last'.h = b)
        => (heap' = heap /\ last'.faults = {})]_vars

\* C2: the buffer handle invariant. Every handle the caller holds is fully
\* released (both pointers null) or fully allocated (both pointers refer to
\* live blocks), after every return of cuda_allocate and of cuda_free.
C2_HandleAllocatedOrReleased ==
    \A h \in Handles :
        \/ handles[h].device_ptr = NULL /\ handles[h].count_ptr = NULL
        \/ /\ handles[h].device_ptr # NULL /\ handles[h].count_ptr # NULL
           /\ heap[handles[h].device_ptr].live
           /\ heap[handles[h].count_ptr].live

\* C3: cuda_allocate leaks nothing. The live blocks are exactly those of the
\* buffers that were allocated and not yet released: a cuda_allocate that
\* returns CUDA_ERROR_MEMORY_ALLOCATION leaves none of its own behind, and
\* when every successful cuda_allocate has been released no block is live.
C3_NoLeak ==
    ~Stopped => LiveAddrs(heap) = OwnedAddrs

\* C3 happens: the count cell could not be had after the data region was,
\* and nothing is live
C3_Witness ==
    /\ last.op = "cuda_allocate"
    /\ last.ret = CUDA_ERROR_MEMORY_ALLOCATION
    /\ handles[last.h].device_ptr # NULL
    /\ LiveAddrs(heap) = {}

\* C4: cuda_init is idempotent. Once the registry is initialized it stays
\* so, the count and the device table never change again, and every later
\* cuda_init returns CUDA_SUCCESS with the count of the first, whatever the
\* override holds by then.
C4_InitializeIdempotent ==
    [][/\ initialized =>
            /\ initialized'
            /\ device_count' = device_count
            /\ devices' = devices
            /\ last'.op = "cuda_init" =>
                 (last'.ret = CUDA_SUCCESS /\ last'.count_out = device_count)
       /\ (~initialized /\ last'.op = "cuda_init"
             /\ last'.ret = CUDA_SUCCESS) =>
            (initialized' /\ last'.count_out = device_count')]_vars

\* C4 happens: a cuda_init that reports 3 devices while a buffer is
\* allocated, so after the cuda_init that let the buffer be allocated
C4_Witness ==
    /\ last.op = "cuda_init"
    /\ last.ret = CUDA_SUCCESS
    /\ last.count_out = 3
    /\ owned # {}

\* C5: when the resolved device count is <= 0, cuda_init returns
\* CUDA_ERROR_NO_DEVICE, writes no count and leaves the registry
\* uninitialized; while it is uninitialized every cuda_get_device_info,
\* cuda_allocate, copy and operator call returns CUDA_ERROR_INIT_FAILED and
\* touches nothing, and only a cuda_init that succeeds ends that.
C5_NoDeviceLeavesUninitialized ==
    [][~initialized =>
        /\ \A env \in EnvValues :
              (cuda_init(env) /\ ResolveDeviceCount(env) <= 0) =>
                 /\ last'.ret = CUDA_ERROR_NO_DEVICE
                 /\ last'.count_out = Uninit
                 /\ ~initialized'
        /\ last'.op \notin {"cuda_init", "cuda_free"} =>
              /\ last'.ret = CUDA_ERROR_INIT_FAILED
              /\ ~initialized'
              /\ heap' = heap /\ handles' = handles
        /\ initialized' =>
              (last'.op = "cuda_init" /\ last'.ret = CUDA_SUCCESS)]_vars

\* C5 happens: an operator refused after a cuda_init that resolved a
\* negative count
C5_Witness ==
    /\ ~initialized
    /\ device_count < 0
    /\ last.op = "cuda_execute_sort"
    /\ last.ret = CUDA_ERROR_INIT_FAILED

\* C6: cuda_get_device_info returns CUDA_ERROR_INIT_FAILED while the registry
\* is uninitialized; once it is initialized with N devices the call returns
\* CUDA_SUCCESS for every device_id in [0, N) (a call that reads past the end
\* of the table may not return at all) and CUDA_ERROR_INVALID_VALUE for every
\* other; the caller's info is written only on CUDA_SUCCESS.
C6_DeviceInfoCodes ==
    last.op = "cuda_get_device_info" =>
        /\ ~initialized => last.ret = CUDA_ERROR_INIT_FAILED
        /\ (initialized /\ 0 <= last.dev /\ last.dev < device_count) =>
              \/ last.ret = CUDA_SUCCESS
              \/ last.ret = NO_RETURN /\ last.dev >= MaxDevices
        /\ (initialized /\ (last.dev < 0 \/ last.dev >= device_count)) =>
              last.ret = CUDA_ERROR_INVALID_VALUE
        /\ Failed(last) => last.info = UninitDevice
        /\ (last.ret = CUDA_SUCCESS /\ last.dev < MaxDevices) =>
              last.info.device_id = last.dev

\* C6 happens: with 3 devices, device_id 3 is refused
C6_Witness ==
    /\ initialized
    /\ device_count = 3
    /\ last.op = "cuda_get_device_info"
    /\ last.dev = 3
    /\ last.ret = CUDA_ERROR_INVALID_VALUE

\* the two copies
CopyOps == {"cuda_copy_to_device", "cuda_copy_to_host"}

\* C7: with the registry initialized, a copy whose host pointer is null,
\* whose buffer has a null data pointer, or whose size exceeds the buffer's
\* size returns CUDA_ERROR_INVALID_VALUE; a copy that returns an error code
\* (CUDA_ERROR_INIT_FAILED included) changes no byte of the heap and none of
\* the host array; a copy that returns CUDA_SUCCESS has copied all its bytes.
C7_CopyValidates ==
    [][last'.op \in CopyOps =>
        LET buffer == Buf(last'.h)
            n == last'.n
        IN  /\ ~initialized => last'.ret = CUDA_ERROR_INIT_FAILED
            /\ (initialized /\ (\/ last'.hostnull
                                \/ buffer.device_ptr = NULL
                                \/ n > buffer.size)) =>
                  last'.ret = CUDA_ERROR_INVALID_VALUE
            /\ Failed(last') =>
                  /\ heap' = heap
                  /\ last'.op = "cuda_copy_to_host" =>
                        last'.dst = (IF last'.hostnull THEN <<>> ELSE HostFill)
            /\ (last'.ret = CUDA_SUCCESS /\ last'.faults = {}) =>
                  IF last'.op = "cuda_copy_to_device"
                  THEN SubSeq(heap'[buffer.device_ptr].bytes, 1, n)
                          = SubSeq(last'.src, 1, n)
                  ELSE SubSeq(last'.dst, 1, n)
                          = SubSeq(heap[buffer.device_ptr].bytes, 1, n)]_vars

\* C7 happens: a copy of more bytes than an allocated buffer has is refused
C7_Witness ==
    /\ initialized
    /\ last.op = "cuda_copy_to_device"
    /\ last.h \in owned
    /\ ~last.hostnull
    /\ last.n > handles[last.h].size
    /\ last.ret = CUDA_ERROR_INVALID_VALUE

\* C8: the copy round trip. A cuda_copy_to_device of n <= size bytes into an
\* allocated buffer succeeds, and changes no byte of the buffer at offset n
\* or beyond and no other block; a cuda_copy_to_host of the same n bytes of
\* the same buffer right after it succeeds too, and hands back the n bytes
\* that were copied in.
C8_CopyRoundTrip ==
    [][/\ (/\ last.op = "cuda_copy_to_device" /\ last.h \in owned
           /\ ~last.hostnull /\ last.n <= handles[last.h].size) =>
            /\ last.ret = CUDA_SUCCESS
            /\ (/\ last'.op = "cuda_copy_to_host" /\ last'.h = last.h
                /\ last'.n = last.n /\ ~last'.hostnull) =>
                  /\ last'.ret = CUDA_SUCCESS
                  /\ SubSeq(last'.dst, 1, last.n) = SubSeq(last.src, 1, last.n)
       /\ (/\ last'.op = "cuda_copy_to_device" /\ last'.h \in owned
           /\ last'.ret = CUDA_SUCCESS) =>
            LET p == handles[last'.h].device_ptr
            IN  /\ \A a \in Addrs \ {p} : heap'[a] = heap[a]
                /\ Len(heap'[p].bytes) = Len(heap[p].bytes)
                /\ \A i \in (last'.n + 1)..Len(heap[p].bytes) :
                      heap'[p].bytes[i] = heap[p].bytes[i]]_vars

\* C8 happens: a whole buffer copied out holds one of the host arrays that
\* were copied in
C8_Witness ==
    /\ last.op = "cuda_copy_to_host"
    /\ last.ret = CUDA_SUCCESS
    /\ last.h \in owned
    /\ last.n = MaxSize
    /\ \E s \in HostSources :
          SubSeq(last.dst, 1, MaxSize) = SubSeq(s, 1, MaxSize)

\* what C9 asks of an operator call: CUDA_ERROR_INIT_FAILED while the
\* registry is uninitialized, CUDA_ERROR_INVALID_VALUE when a pointer it
\* requires is null, and in both cases an untouched heap
OperatorRefuses(nullptr) ==
    /\ ~initialized => (last'.ret = CUDA_ERROR_INIT_FAILED /\ heap' = heap)
    /\ (initialized /\ nullptr) =>
          (last'.ret = CUDA_ERROR_INVALID_VALUE /\ heap' = heap)

\* C9: every operator validates before it touches data. It returns
\* CUDA_ERROR_INIT_FAILED while the registry is uninitialized, and
\* CUDA_ERROR_INVALID_VALUE when a data pointer of one of its buffers, or a
\* count cell it reads or writes, is null; in both cases it touches nothing.
C9_OperatorsValidate ==
    [][/\ \A bi \in BufArgs, bo \in BufArgs :
            cuda_execute_sort(bi, bo) =>
               OperatorRefuses(\/ Buf(bi).device_ptr = NULL
                               \/ Buf(bo).device_ptr = NULL
                               \/ Buf(bi).count_ptr = NULL
                               \/ Buf(bo).count_ptr = NULL)
       /\ \A bi \in BufArgs, bo \in BufArgs :
            cuda_execute_group_by(bi, bo) =>
               OperatorRefuses(\/ Buf(bi).device_ptr = NULL
                               \/ Buf(bo).device_ptr = NULL
                               \/ Buf(bo).count_ptr = NULL)
       /\ \A bl \in BufArgs, br \in BufArgs, bo \in BufArgs,
             join_type \in JoinTypes :
            cuda_execute_join(bl, br, bo, join_type) =>
               OperatorRefuses(\/ Buf(bl).device_ptr = NULL
                               \/ Buf(br).device_ptr = NULL
                               \/ Buf(bo).device_ptr = NULL
                               \/ Buf(bo).count_ptr = NULL)
       /\ \A bi \in BufArgs, bo \in BufArgs, op \in AggregateOps,
             data_type \in DataTypes :
            cuda_execute_aggregate(bi, bo, op, data_type) =>
               OperatorRefuses(\/ Buf(bi).device_ptr = NULL
                               \/ Buf(bo).device_ptr = NULL)
       /\ \A bi \in BufArgs, bo \in BufArgs, op \in ComparisonOps,
             data_type \in DataTypes, vnull \in BOOLEAN, v2null \in BOOLEAN :
            cuda_execute_filter(bi, bo, op, data_type, vnull, v2null) =>
               OperatorRefuses(\/ Buf(bi).device_ptr = NULL
                               \/ Buf(bo).device_ptr = NULL
                               \/ Buf(bo).count_ptr = NULL)]_vars

\* C10: a CUDA_CMP_BETWEEN filter over allocated buffers whose value2 is null
\* returns CUDA_ERROR_INVALID_VALUE and leaves the output count cell (and
\* every other byte) as it was.
C10_BetweenNeedsValue2 ==
    [][initialized =>
        \A bi \in owned, bo \in owned, data_type \in DataTypes,
           vnull \in BOOLEAN :
            cuda_execute_filter(bi, bo, CUDA_CMP_BETWEEN, data_type,
                                vnull, TRUE) =>
               (last'.ret = CUDA_ERROR_INVALID_VALUE /\ heap' = heap)]_vars

\* the integer data types
IntegerTypes == {CUDA_TYPE_INT32, CUDA_TYPE_INT64}

\* C11: a CUDA_AGG_AVG aggregate over an integer data type, on allocated
\* buffers, returns CUDA_ERROR_NOT_SUPPORTED and changes no byte of the
\* output buffer (nor any other).
C11_IntegerAvgNotSupported ==
    [][(initialized /\ last'.op = "cuda_execute_aggregate") =>
        \A bi \in owned, bo \in owned, data_type \in IntegerTypes :
            cuda_execute_aggregate(bi, bo, CUDA_AGG_AVG, data_type) =>
               (last'.ret = CUDA_ERROR_NOT_SUPPORTED /\ heap' = heap)]_vars

\* C12: sort preserves cardinality. After a cuda_execute_sort that returns
\* CUDA_SUCCESS (and ran into no undefined behaviour) the output's count cell
\* holds what the input's count cell held before the call, the input's count
\* cell holds what it held, and no other block has changed.
C12_SortPreservesCount ==
    [][last'.op = "cuda_execute_sort" =>
        \A bi \in BufArgs, bo \in BufArgs :
            (/\ cuda_execute_sort(bi, bo)
             /\ last'.ret = CUDA_SUCCESS /\ last'.faults = {}) =>
               LET pin == Buf(bi).count_ptr
                   pout == Buf(bo).count_ptr
               IN  /\ heap'[pout].bytes = heap[pin].bytes
                   /\ heap'[pin] = heap[pin]
                   /\ \A a \in Addrs \ {pout} : heap'[a] = heap[a]]_vars

\* C12 happens: a sort from one allocated buffer into the other has handed
\* on a row count that is not zero
C12_Witness ==
    /\ last.op = "cuda_execute_sort"
    /\ last.ret = CUDA_SUCCESS
    /\ owned = Handles
    /\ heap[handles[1].count_ptr].bytes = heap[handles[2].count_ptr].bytes
    /\ heap[handles[1].count_ptr].bytes # EncodeInt(0)

\* a block whose bytes are all as malloc left them
Unwritten(block) == \A i \in 1..Len(block.bytes) : block.bytes[i] = Uninit

\* C13: no partial success in aggregate. For every aggregate kind and data
\* type, a cuda_execute_aggregate that returns CUDA_SUCCESS has written a
\* scalar: an output data region that nothing was ever written to is no
\* longer so after the call.
C13_AggregateWritesScalar ==
    [][(initialized /\ last'.op = "cuda_execute_aggregate") =>
        \A bi \in owned, bo \in owned, op \in AggregateOps,
           data_type \in DataTypes :
            (/\ cuda_execute_aggregate(bi, bo, op, data_type)
             /\ Unwritten(heap[handles[bo].device_ptr])
             /\ last'.ret = CUDA_SUCCESS) =>
               ~Unwritten(heap'[handles[bo].device_ptr])]_vars

\* C14: the device table bound. cuda_init never writes past the 8 entries of
\* the table, and once the registry is initialized every device_id below
\* device_count is the index of a populated entry of the table.
C14_DeviceTableBound ==
    /\ "table_overflow" \notin last.faults
    /\ initialized =>
          \A id \in 0..(device_count - 1) :
              id < MaxDevices /\ devices[id] = SimulatedDevice(id)

\* C15: no use after release. A copy given a handle that cuda_free has
\* released (the handle still holds both pointers of its allocation) returns
\* an error code and touches no released block.
C15_NoUseAfterRelease ==
    (/\ initialized
     /\ last.op \in CopyOps /\ last.n > 0
     /\ last.h \in Handles \ owned
     /\ handles[last.h].device_ptr # NULL
     /\ handles[last.h].count_ptr # NULL) =>
        (Failed(last) /\ "use_after_free" \notin last.faults)
====
